---- MODULE Spec2Model ----
(***************************************************************************)
(* Model of util/graph_playbook.py: the expansion of a playbook's role     *)
(* list into the registry of all directly and transitively referenced      *)
(* roles (expand_roles), the mapping of the registry to graph nodes and    *)
(* edges (graph_roles) and the service listing (echo_services).            *)
(*                                                                         *)
(* A Role object is modelled by its value [name, is_optional,              *)
(* dependencies].  The program shares one object between a role's          *)
(* dependency list and the worklist, so a dependency's own `dependencies`  *)
(* field is filled in later through the alias; no code reads that nested   *)
(* field (only dep.name, dep.style and dep.color are read, line 207-212),  *)
(* so the value kept inside a dependency list has dependencies = <<>>.     *)
(***************************************************************************)
EXTENDS Integers, Sequences, FiniteSets, TLC

VARIABLES
    raw_list,            \* playbook[0]['roles'], the initial declarations
    role_dir,            \* the role directory: role name -> its meta/main.yml
    pc,                  \* position in cli()
    role_list,           \* expand_roles: the worklist
    roles,               \* expand_roles: the registry, a dict name -> Role
    popped,              \* history: the (name, flag) of every dequeued entry
    graph,               \* graph_roles: the AGraph, [nodes, edges]
    pending,             \* graph_roles: registry keys not yet iterated
    highlight_services,  \* --highlight-services
    out                  \* lines written by click.echo

vars == <<raw_list, role_dir, pc, role_list, roles, popped, graph, pending,
          highlight_services, out>>

(***************************************************************************)
(* Bounds of the model.                                                    *)
(***************************************************************************)
\* total number of role declarations in the playbook and all metadata files
MaxDecls == 4
\* number of those declarations that carry a `when` key
MaxWhen == 1
\* length of a playbook list drawn from every shape of declaration
MaxRaw == 2
\* declarations in all when every kind of metadata file is drawn
MaxMetaDecls == 3
\* loop iterations of expand_roles that are explored
MaxIter == 2 * MaxDecls + 4

\* role names the inputs are drawn from: one non-service, two services
Names == {"common", "edxapp", "mysql"}

(***************************************************************************)
(* Module constants, lines 14-54.                                          *)
(***************************************************************************)
SERVICES ==
    << "analytics_api", "certs", "ecommerce", "ecomworker", "edxapp",
       "elasticsearch", "forum", "insights", "memcache", "mongo", "mysql",
       "nginx", "notifier", "programs", "rabbitmq", "supervisor", "xqueue" >>

FONT_NAME == "helvetica"

OPTIONAL_SERVICE_COLOR == "darkolivegreen1"

SERVICE_COLOR == "cornflowerblue"

NODE_OPTIONS == [fontname |-> FONT_NAME]

EDGE_OPTIONS_forward ==
    [arrowsize |-> ".5", dir |-> "forward", style |-> "dashed"]

EDGE_OPTIONS == [arrowsize |-> ".5", dir |-> "back", style |-> "dashed"]

(***************************************************************************)
(* class Role, lines 57-110.                                               *)
(***************************************************************************)
Role(name, is_optional) ==
    [name |-> name, is_optional |-> is_optional, dependencies |-> <<>>]

Role_str(role) ==
    LET suffix == IF role.is_optional THEN " (optional)" ELSE ""
    IN  role.name \o suffix

is_service(role) == \E i \in DOMAIN SERVICES : SERVICES[i] = role.name

color_service_first(role) ==
    IF is_service(role) THEN SERVICE_COLOR
    ELSE IF role.is_optional THEN OPTIONAL_SERVICE_COLOR
    ELSE "transparent"

color(role) ==
    IF role.is_optional THEN OPTIONAL_SERVICE_COLOR
    ELSE IF is_service(role) THEN SERVICE_COLOR
    ELSE "transparent"

style(role) == IF is_service(role) THEN "filled" ELSE ""

(***************************************************************************)
(* Raw declarations as yaml.safe_load returns them.  An entry is           *)
(* [t, s, d]: t is the Python type ("str", "dict" or "other"), s the       *)
(* string's value and d the dict, a function from its keys to values.      *)
(***************************************************************************)
StrEntry(n) == [t |-> "str", s |-> n, d |-> <<>>]

DictEntry(d) == [t |-> "dict", s |-> "", d |-> d]

OtherEntry == [t |-> "other", s |-> "", d |-> <<>>]

(***************************************************************************)
(* _parse_raw_list, lines 215-235.  The result is [ok, roles]; ok = FALSE  *)
(* stands for the KeyError of r['role'] on a dict without a 'role' key.    *)
(***************************************************************************)
ParseEntry_truthy(r) ==
    IF r.t = "str" THEN <<Role(r.s, FALSE)>>
    ELSE IF r.t = "dict"
         THEN <<Role(r.d["role"],
                     "when" \in DOMAIN r.d /\ r.d["when"] \notin {"", "False"})>>
         ELSE <<>>

ParseEntry_elif(r) ==
    IF r.t = "str" THEN <<Role(r.s, FALSE)>>
    ELSE IF r.t = "dict" /\ "when" \notin DOMAIN r.d
         THEN <<Role(r.d["role"], FALSE)>>
         ELSE <<>>

ParseEntry(r) ==
    IF r.t = "str" THEN <<Role(r.s, FALSE)>>
    ELSE IF r.t = "dict" THEN <<Role(r.d["role"], "when" \in DOMAIN r.d)>>
    ELSE <<>>

RaisesKeyError(r) == r.t = "dict" /\ "role" \notin DOMAIN r.d

RECURSIVE _parse_raw_list(_)
_parse_raw_list(list) ==
    IF list = <<>> THEN [ok |-> TRUE, roles |-> <<>>]
    ELSE IF RaisesKeyError(Head(list)) THEN [ok |-> FALSE, roles |-> <<>>]
    ELSE LET rest == _parse_raw_list(Tail(list))
         IN  IF rest.ok
             THEN [ok |-> TRUE, roles |-> ParseEntry(Head(list)) \o rest.roles]
             ELSE rest

(***************************************************************************)
(* A metadata file <role_dir>/<name>/meta/main.yml is                      *)
(* [exists, yaml, keys, dependencies]: whether the file exists, what       *)
(* yaml.safe_load makes of it ("error", "null" or "map"), the keys of the  *)
(* mapping and the value under 'dependencies'.                             *)
(***************************************************************************)
Absent == [exists |-> FALSE, yaml |-> "null", keys |-> {}, dependencies |-> <<>>]

NullDoc == [exists |-> TRUE, yaml |-> "null", keys |-> {}, dependencies |-> <<>>]

EmptyMap == [exists |-> TRUE, yaml |-> "map", keys |-> {}, dependencies |-> <<>>]

NoDepsKey ==
    [exists |-> TRUE, yaml |-> "map", keys |-> {"galaxy_info"},
     dependencies |-> <<>>]

Malformed == [exists |-> TRUE, yaml |-> "error", keys |-> {}, dependencies |-> <<>>]

WithDeps(list) ==
    [exists |-> TRUE, yaml |-> "map", keys |-> {"dependencies"},
     dependencies |-> list]

(***************************************************************************)
(* _get_role_dependencies, lines 150-171.  ok = FALSE stands for an        *)
(* exception (malformed YAML, or the KeyError of _parse_raw_list).         *)
(***************************************************************************)
_get_role_dependencies_strict(role, dir) ==
    LET meta == dir[role.name]
    IN  IF ~meta.exists \/ meta.yaml # "map" THEN [ok |-> FALSE, roles |-> <<>>]
        ELSE _parse_raw_list(IF "dependencies" \in meta.keys
                             THEN meta.dependencies ELSE <<>>)

_get_role_dependencies(role, dir) ==
    LET meta == dir[role.name]
    IN  IF ~meta.exists THEN [ok |-> TRUE, roles |-> <<>>]
        ELSE IF meta.yaml = "error" THEN [ok |-> FALSE, roles |-> <<>>]
        ELSE IF meta.yaml = "map" /\ meta.keys # {}
             THEN _parse_raw_list(IF "dependencies" \in meta.keys
                                  THEN meta.dependencies ELSE <<>>)
             ELSE [ok |-> TRUE, roles |-> <<>>]

(***************************************************************************)
(* expand_roles, lines 250-270.                                            *)
(***************************************************************************)
\* roles[role.name] = role, line 267
StoreRole_first(registry, role) ==
    IF role.name \in DOMAIN registry THEN registry
    ELSE [k \in DOMAIN registry \cup {role.name} |->
             IF k = role.name THEN role ELSE registry[k]]

StoreRole(registry, role) ==
    [k \in DOMAIN registry \cup {role.name} |->
        IF k = role.name THEN role ELSE registry[k]]

\* role_list.extend(role.dependencies), line 268
Extend_guarded(list, role, registry) ==
    IF role.name \in DOMAIN registry THEN list ELSE list \o role.dependencies

Extend_first(list, role, registry) ==
    IF role.dependencies = <<>> THEN list
    ELSE Append(list, Head(role.dependencies))

Extend(list, role, registry) == list \o role.dependencies

\* lines 261-262
ExpandStart ==
    /\ pc = "cli"
    /\ LET parsed == _parse_raw_list(raw_list)
       IN  IF parsed.ok
           THEN /\ role_list' = parsed.roles
                /\ pc' = "loop"
           ELSE /\ role_list' = <<>>
                /\ pc' = "error"
    /\ roles' = <<>>
    /\ UNCHANGED <<raw_list, role_dir, popped, graph, pending,
                   highlight_services, out>>

\* one iteration of the loop, lines 264-268
ExpandStep ==
    /\ pc = "loop"
    /\ role_list # <<>>
    /\ Len(popped) < MaxIter
    /\ LET role == Head(role_list)
           deps == _get_role_dependencies(role, role_dir)
           expanded == [role EXCEPT !.dependencies = deps.roles]
       IN  /\ popped' = Append(popped, [name |-> role.name,
                                        is_optional |-> role.is_optional])
           /\ IF deps.ok
              THEN /\ role_list' = Extend(Tail(role_list), expanded, roles)
                   /\ roles' = StoreRole(roles, expanded)
                   /\ pc' = "loop"
              ELSE /\ role_list' = Tail(role_list)
                   /\ roles' = roles
                   /\ pc' = "error"
    /\ UNCHANGED <<raw_list, role_dir, graph, pending, highlight_services, out>>

\* the loop test fails and the registry is returned, lines 264 and 270
ExpandReturn ==
    /\ pc = "loop"
    /\ role_list = <<>>
    /\ pc' = "expanded"
    /\ UNCHANGED <<raw_list, role_dir, role_list, roles, popped, graph, pending,
                   highlight_services, out>>

(***************************************************************************)
(* graph_roles and its helpers, lines 113-129, 174-212 and 273-293.        *)
(* The AGraph is [nodes, edges]: nodes maps a node name to its attributes  *)
(* (a function from attribute names to values), edges is the set of edges  *)
(* [tail, head] with their attributes.  AGraph(directed=True) is strict:   *)
(* adding an existing node updates the attributes given and keeps the      *)
(* others, adding an existing edge adds nothing.                           *)
(***************************************************************************)
_add_node(g, node, kwargs) ==
    LET options == kwargs @@ NODE_OPTIONS
        attrs == IF node \in DOMAIN g.nodes THEN options @@ g.nodes[node]
                 ELSE options
    IN  [g EXCEPT !.nodes = [n \in DOMAIN g.nodes \cup {node} |->
                                IF n = node THEN attrs ELSE g.nodes[n]]]

\* graph.add_edge(dep.name, role.name, **EDGE_OPTIONS), line 212
add_edge(g, u, v) ==
    [g EXCEPT !.edges = @ \cup {[tail |-> u, head |-> v] @@ EDGE_OPTIONS}]

_graph_legend(g) ==
    _add_node(_add_node(g, "Service",
                        [style |-> "filled", fillcolor |-> SERVICE_COLOR]),
              "Optional Service",
              [style |-> "filled", fillcolor |-> OPTIONAL_SERVICE_COLOR])

NodeOptions(role, highlight) ==
    IF highlight THEN [style |-> style(role), fillcolor |-> color(role)]
    ELSE <<>>

\* the loop of lines 207-212 over role.dependencies[i..]
RECURSIVE GraphDeps(_, _, _, _)
GraphDeps(g, role, i, highlight) ==
    IF i > Len(role.dependencies) THEN g
    ELSE LET dep == role.dependencies[i]
             g1 == _add_node(g, dep.name, NodeOptions(dep, highlight))
             g2 == add_edge(g1, dep.name, role.name)
         IN  GraphDeps(g2, role, i + 1, highlight)

_graph_role(g, role, highlight) ==
    GraphDeps(_add_node(g, role.name, NodeOptions(role, highlight)),
              role, 1, highlight)

\* lines 284-288
GraphStart(highlight) ==
    /\ pc = "expanded"
    /\ LET empty == [nodes |-> <<>>, edges |-> {}]
       IN  graph' = IF highlight THEN _graph_legend(empty) ELSE empty
    /\ pending' = DOMAIN roles
    /\ highlight_services' = highlight
    /\ pc' = "graph"
    /\ UNCHANGED <<raw_list, role_dir, role_list, roles, popped, out>>

\* one iteration of `for k, role in roles.items()`, lines 290-291; the
\* order in which a dict yields its items is not specified
GraphRole(k) ==
    /\ pc = "graph"
    /\ k \in pending
    /\ graph' = _graph_role(graph, roles[k], highlight_services)
    /\ pending' = pending \ {k}
    /\ UNCHANGED <<raw_list, role_dir, pc, role_list, roles, popped,
                   highlight_services, out>>

\* line 293
GraphDraw ==
    /\ pc = "graph"
    /\ pending = {}
    /\ pc' = "drawn"
    /\ UNCHANGED <<raw_list, role_dir, role_list, roles, popped, graph, pending,
                   highlight_services, out>>

(***************************************************************************)
(* echo_services, lines 238-247.                                           *)
(***************************************************************************)
\* Python's order on the strings that occur as role names
LexOrder ==
    << "analytics_api", "certs", "common", "ecommerce", "ecomworker", "edxapp",
       "elasticsearch", "forum", "insights", "memcache", "mongo", "mysql",
       "nginx", "notifier", "programs", "rabbitmq", "supervisor", "xqueue" >>

StrLess(a, b) ==
    \E i, j \in DOMAIN LexOrder : LexOrder[i] = a /\ LexOrder[j] = b /\ i < j

RECURSIVE sorted_reverse(_)
sorted_reverse(S) ==
    IF S = {} THEN <<>>
    ELSE LET m == CHOOSE x \in S : \A y \in S : ~StrLess(x, y)
         IN  <<m>> \o sorted_reverse(S \ {m})

RECURSIVE sorted(_)
sorted(S) ==
    IF S = {} THEN <<>>
    ELSE LET m == CHOOSE x \in S : \A y \in S : ~StrLess(y, x)
         IN  <<m>> \o sorted(S \ {m})

echo_services(registry) ==
    LET relevant_roles ==
            {k \in DOMAIN registry : \E i \in DOMAIN SERVICES : SERVICES[i] = k}
        keys == sorted(relevant_roles)
    IN  [i \in DOMAIN keys |-> Role_str(registry[keys[i]])]

\* cli with --list-services, lines 337-338
EchoServices ==
    /\ pc = "drawn"
    /\ out' = echo_services(roles)
    /\ pc' = "listed"
    /\ UNCHANGED <<raw_list, role_dir, role_list, roles, popped, graph, pending,
                   highlight_services>>

\* cli without --list-services, line 337
Exit ==
    /\ pc = "drawn"
    /\ pc' = "done"
    /\ UNCHANGED <<raw_list, role_dir, role_list, roles, popped, graph, pending,
                   highlight_services, out>>

Next ==
    \/ ExpandStart
    \/ ExpandStep
    \/ ExpandReturn
    \/ \E highlight \in BOOLEAN : GraphStart(highlight)
    \/ \E k \in Names : GraphRole(k)
    \/ GraphDraw
    \/ EchoServices
    \/ Exit

(***************************************************************************)
(* Initial states: cli() is entered with a playbook's role list and a      *)
(* role directory.  The three families differ in the inputs they draw.     *)
(***************************************************************************)
N1 == "common"
N2 == "edxapp"
N3 == "mysql"

Start(list, dir) ==
    /\ raw_list = list
    /\ role_dir = dir
    /\ pc = "cli"
    /\ role_list = <<>>
    /\ roles = <<>>
    /\ popped = <<>>
    /\ graph = [nodes |-> <<>>, edges |-> {}]
    /\ pending = {}
    /\ highlight_services = FALSE
    /\ out = <<>>

WhenCount(list) ==
    Cardinality({i \in DOMAIN list : "when" \in DOMAIN list[i].d})

\* the sequences over S of length at most n
SeqsUpTo(S, n) == UNION {[1..k -> S] : k \in 0..n}

\* a role without dependencies has no metadata file
FileOf(deps) == IF deps = <<>> THEN Absent ELSE WithDeps(deps)

\* well-formed declarations: bare names, and names under a `when` condition
PlainEntries == {StrEntry(n) : n \in Names}

WhenEntries ==
    {DictEntry([role |-> n, when |-> "some_condition"]) : n \in Names}

\* the playbook list and the three dependency lists hold MaxDecls entries in
\* all, at most `whens` of them with a `when` key
InitWith(Entries, whens) ==
    \E list \in SeqsUpTo(Entries, MaxDecls) :
    \E d1 \in SeqsUpTo(Entries, MaxDecls - Len(list)) :
    \E d2 \in SeqsUpTo(Entries, MaxDecls - Len(list) - Len(d1)) :
    \E d3 \in SeqsUpTo(Entries, MaxDecls - Len(list) - Len(d1) - Len(d2)) :
        /\ WhenCount(list) + WhenCount(d1) + WhenCount(d2) + WhenCount(d3) <= whens
        /\ Start(list, (N1 :> FileOf(d1)) @@ (N2 :> FileOf(d2)) @@ (N3 :> FileOf(d3)))

Init == InitWith(PlainEntries \cup WhenEntries, MaxWhen)

Spec == Init /\ [][Next]_vars

\* every shape of declaration: a bare name, a mapping with or without a
\* `when` key (whose value may be a condition, the empty string or the YAML
\* boolean false), a mapping without a 'role' key, and a non-string scalar
WhenValues == {"some_condition", "", "False"}

AllEntries ==
    PlainEntries
    \cup {DictEntry([role |-> n]) : n \in Names}
    \cup {DictEntry([role |-> n, when |-> w]) : n \in Names, w \in WhenValues}
    \cup {DictEntry([when |-> "some_condition"]), OtherEntry}

InitParse ==
    \E list \in SeqsUpTo(AllEntries, MaxRaw) : Start(list, [k \in Names |-> Absent])

\* every kind of metadata file that declares no dependency
NoDepsFiles == {Absent, NullDoc, EmptyMap, NoDepsKey, Malformed}

InitMeta ==
    \E list \in SeqsUpTo(PlainEntries, MaxMetaDecls) :
    \E d1 \in SeqsUpTo(PlainEntries, MaxMetaDecls - Len(list)) :
    \E d2 \in SeqsUpTo(PlainEntries, MaxMetaDecls - Len(list) - Len(d1)) :
    \E d3 \in SeqsUpTo(PlainEntries, MaxMetaDecls - Len(list) - Len(d1) - Len(d2)) :
    \E f1 \in IF d1 = <<>> THEN NoDepsFiles ELSE {WithDeps(d1)} :
    \E f2 \in IF d2 = <<>> THEN NoDepsFiles ELSE {WithDeps(d2)} :
    \E f3 \in IF d3 = <<>> THEN NoDepsFiles ELSE {WithDeps(d3)} :
        Start(list, (N1 :> f1) @@ (N2 :> f2) @@ (N3 :> f3))

InitPlain == InitWith(PlainEntries, 0)

SpecParse == InitParse /\ [][Next]_vars

SpecMeta == InitMeta /\ [][Next]_vars

\* cli() is sequential code that runs on: a step that can be taken is taken
FairSpec == InitPlain /\ [][Next]_vars /\ WF_vars(Next)

(***************************************************************************)
(* Vocabulary of the properties, read off the inputs and not off the       *)
(* program's own parsing.                                                  *)
(***************************************************************************)
Returned == {"expanded", "graph", "drawn", "listed", "done"}

EntryName(e) == IF e.t = "str" THEN e.s ELSE e.d["role"]

\* the names a role's metadata file declares as dependencies
Declared(n) ==
    LET meta == role_dir[n]
    IN  IF meta.exists /\ meta.yaml = "map" /\ "dependencies" \in meta.keys
        THEN {EntryName(meta.dependencies[i]) : i \in DOMAIN meta.dependencies}
        ELSE {}

RECURSIVE Closure(_)
Closure(S) ==
    LET T == S \cup UNION {Declared(n) : n \in S}
    IN  IF T = S THEN S ELSE Closure(T)

\* names reachable from the initial declarations in zero or more steps
ReachSet == Closure({EntryName(raw_list[i]) : i \in DOMAIN raw_list})

\* a reachable role that is its own dependency in one or more steps
CycleReachable == \E n \in ReachSet : n \in Closure(Declared(n))

IsServiceName(n) == \E i \in DOMAIN SERVICES : SERVICES[i] = n

\* Graphviz draws the arrowhead of an edge with dir=back at its tail node
ArrowheadAt(e) == IF e.dir = "back" THEN e.tail ELSE e.head

(***************************************************************************)
(* C1: once expand_roles has returned, the keys of the registry are        *)
(* exactly the role names reachable from the initial declarations by       *)
(* following declared dependencies zero or more times.                     *)
(***************************************************************************)
C1_KeysAreClosure == pc \in Returned => DOMAIN roles = ReachSet

C1_Witness ==
    /\ pc = "expanded"
    /\ raw_list = << StrEntry("edxapp"),
                     DictEntry([role |-> "mysql", when |-> "some_condition"]) >>
    /\ role_dir["edxapp"] = WithDeps(<< StrEntry("common") >>)
    /\ role_dir["mysql"] = Absent
    /\ DOMAIN roles = {"edxapp", "mysql", "common"}

(***************************************************************************)
(* C2: expand_roles returns if and only if no dependency cycle is          *)
(* reachable from the initial declarations: without a cycle it eventually  *)
(* returns; with one (a self-dependency included) the worklist is          *)
(* non-empty at every loop test and the call never returns.                *)
(***************************************************************************)
C2_ReturnsIffAcyclic ==
    /\ [](~CycleReachable => <>(pc \in Returned))
    /\ [](CycleReachable =>
             /\ pc \notin Returned
             /\ pc = "loop" => role_list # <<>>)

C2_Witness ==
    /\ CycleReachable
    /\ pc = "loop"
    /\ Len(popped) >= 6
    /\ role_list # <<>>

(***************************************************************************)
(* C3: after every iteration of the loop, and so after the return, the     *)
(* registry holds for each dequeued name exactly the most recently         *)
(* dequeued entry of that name: its is_optional flag is that entry's,      *)
(* whatever the flags of the entries dequeued before.                      *)
(***************************************************************************)
LastIndex(n) ==
    CHOOSE i \in DOMAIN popped :
        /\ popped[i].name = n
        /\ \A j \in DOMAIN popped : j > i => popped[j].name # n

C3_LastDequeuedWins ==
    pc \in {"loop"} \cup Returned =>
        /\ DOMAIN roles = {popped[i].name : i \in DOMAIN popped}
        /\ \A n \in DOMAIN roles :
              /\ roles[n].name = n
              /\ roles[n].is_optional = popped[LastIndex(n)].is_optional

C3_Witness ==
    /\ pc = "expanded"
    /\ \E i, j \in DOMAIN popped :
          /\ i < j
          /\ popped[i].name = popped[j].name
          /\ popped[i].is_optional
          /\ ~popped[j].is_optional
          /\ j = LastIndex(popped[j].name)
          /\ ~roles[popped[j].name].is_optional

(***************************************************************************)
(* C4: _parse_raw_list maps a list of bare strings and mappings to Roles   *)
(* in the same order: a bare string gives a non-optional Role of that      *)
(* name, a mapping a Role named by its 'role' value that is optional iff   *)
(* the mapping has a 'when' key, whatever the value under it.              *)
(***************************************************************************)
WellFormed(e) == e.t = "str" \/ (e.t = "dict" /\ "role" \in DOMAIN e.d)

C4_ParseRawList ==
    (/\ pc = "loop"
     /\ popped = <<>>
     /\ \A i \in DOMAIN raw_list : WellFormed(raw_list[i])) =>
        /\ Len(role_list) = Len(raw_list)
        /\ \A i \in DOMAIN raw_list :
              LET e == raw_list[i]
                  r == role_list[i]
              IN  /\ e.t = "str" => r.name = e.s /\ ~r.is_optional
                  /\ e.t = "dict" =>
                        /\ r.name = e.d["role"]
                        /\ r.is_optional <=> "when" \in DOMAIN e.d

C4_Witness ==
    /\ pc = "loop"
    /\ popped = <<>>
    /\ Len(raw_list) = 2
    /\ raw_list[1] = DictEntry([role |-> "mysql", when |-> ""])
    /\ raw_list[2].t = "str"
    /\ role_list[1].is_optional
    /\ ~role_list[2].is_optional

(***************************************************************************)
(* C5: when the dequeued role's metadata file does not exist, parses to    *)
(* null or an empty mapping, or has no 'dependencies' key, the iteration   *)
(* raises nothing: the role is stored in the registry with an empty        *)
(* dependency list and the loop goes on with the rest of the worklist.     *)
(***************************************************************************)
DeclaresNothing(meta) ==
    \/ ~meta.exists
    \/ meta.yaml = "null"
    \/ meta.yaml = "map" /\ "dependencies" \notin meta.keys

C5_NoMetadataNoError ==
    [][(/\ pc = "loop"
        /\ role_list # <<>>
        /\ popped' # popped
        /\ DeclaresNothing(role_dir[Head(role_list).name])) =>
           /\ pc' = "loop"
           /\ Head(role_list).name \in DOMAIN roles'
           /\ roles'[Head(role_list).name].dependencies = <<>>
           /\ role_list' = Tail(role_list)]_vars

C5_Witness ==
    /\ pc = "expanded"
    /\ \E a, b, c \in DOMAIN roles :
          /\ role_dir[a] = Absent
          /\ role_dir[b] = NullDoc
          /\ role_dir[c] = NoDepsKey
          /\ roles[a].dependencies = <<>>
          /\ roles[b].dependencies = <<>>
          /\ roles[c].dependencies = <<>>

(***************************************************************************)
(* C6: echo_services writes one line for each registry key that is in      *)
(* SERVICES and none for any other key, in ascending order of the role     *)
(* names; a line is the Role's name, followed by ' (optional)' iff the     *)
(* Role is optional.                                                       *)
(***************************************************************************)
ServiceKeys == {k \in DOMAIN roles : IsServiceName(k)}

Line(k) == roles[k].name \o (IF roles[k].is_optional THEN " (optional)" ELSE "")

C6_EchoServices ==
    pc = "listed" =>
        /\ Len(out) = Cardinality(ServiceKeys)
        /\ \A k \in ServiceKeys : \E i \in DOMAIN out : out[i] = Line(k)
        /\ \A i, j \in DOMAIN out : \A k1, k2 \in ServiceKeys :
              (i < j /\ out[i] = Line(k1) /\ out[j] = Line(k2)) => StrLess(k1, k2)

C6_Witness ==
    /\ pc = "listed"
    /\ "common" \in DOMAIN roles
    /\ out = << "edxapp", "mysql (optional)" >>

(***************************************************************************)
(* C7: the node written for a Role with highlighting on has the optional   *)
(* colour when the Role is optional (service or not), else the service     *)
(* colour when its name is in SERVICES, else 'transparent'; its style is   *)
(* 'filled' iff the name is in SERVICES, whatever is_optional is.          *)
(***************************************************************************)
C7_ColorAndStyle ==
    [][\A k \in Names :
          (pc = "graph" /\ highlight_services /\ k \in pending /\ k \notin pending') =>
              LET r == roles[k]
                  node == graph'.nodes[k]
              IN  /\ node["fillcolor"] =
                        IF r.is_optional THEN OPTIONAL_SERVICE_COLOR
                        ELSE IF IsServiceName(r.name) THEN SERVICE_COLOR
                        ELSE "transparent"
                  /\ node["style"] = IF IsServiceName(r.name) THEN "filled" ELSE ""]_vars

C7_Witness ==
    /\ pc = "drawn"
    /\ highlight_services
    /\ \E a, b, c \in DOMAIN roles :
          /\ ~IsServiceName(a) /\ roles[a].is_optional
          /\ graph.nodes[a]["fillcolor"] = OPTIONAL_SERVICE_COLOR
          /\ graph.nodes[a]["style"] = ""
          /\ IsServiceName(b) /\ ~roles[b].is_optional
          /\ graph.nodes[b]["fillcolor"] = SERVICE_COLOR
          /\ graph.nodes[b]["style"] = "filled"
          /\ c \notin {a, b}

(***************************************************************************)
(* C8: for every Role r of the final registry and every dependency d of    *)
(* r the graph has an edge between d.name and r.name, and it has no other  *)
(* edge.  As claimed, the arrowhead of that edge is at the dependent       *)
(* r.name; as amended, the edge has tail d.name and head r.name and, its   *)
(* dir being 'back', its arrowhead is at the prerequisite d.name.          *)
(***************************************************************************)
\* the pairs (d.name, r.name), r in the registry and d in r.dependencies
DependencyPairs ==
    {<<d, k>> \in Names \X Names :
        /\ k \in DOMAIN roles
        /\ \E i \in DOMAIN roles[k].dependencies : roles[k].dependencies[i].name = d}

C8_ArrowAtDependent ==
    pc = "drawn" =>
        /\ \A p \in DependencyPairs : \E e \in graph.edges :
              /\ {e.tail, e.head} = {p[1], p[2]}
              /\ ArrowheadAt(e) = p[2]
        /\ \A e \in graph.edges :
              <<e.tail, e.head>> \in DependencyPairs
              \/ <<e.head, e.tail>> \in DependencyPairs

C8_ArrowAtPrerequisite ==
    pc = "drawn" =>
        /\ {<<e.tail, e.head>> : e \in graph.edges} = DependencyPairs
        /\ \A e \in graph.edges : e.dir = "back" /\ ArrowheadAt(e) = e.tail

C8_Witness ==
    /\ pc = "drawn"
    /\ Cardinality(graph.edges) >= 2
    /\ \E e \in graph.edges : e.tail = "common" /\ e.head = "edxapp"

(***************************************************************************)
(* C9: with highlighting on, once graph_roles has gone through the whole   *)
(* registry, in whatever order, every role node carries the style and the  *)
(* fill colour of the registry's Role of that name.                        *)
(***************************************************************************)
C9_NodesFollowRegistry ==
    (pc = "drawn" /\ highlight_services) =>
        \A n \in DOMAIN roles :
            /\ graph.nodes[n]["style"] = style(roles[n])
            /\ graph.nodes[n]["fillcolor"] = color(roles[n])

(***************************************************************************)
(* C10: two roles a and b that declare each other as their only            *)
(* dependency, expansion starting from a alone.  As claimed, the worklist  *)
(* is longer by the same positive constant after each round trip; as       *)
(* amended, the worklist holds exactly one entry at every loop test and    *)
(* the call never returns.                                                 *)
(***************************************************************************)
DeclaresOnly(a, b) ==
    LET meta == role_dir[a]
    IN  /\ meta.exists /\ meta.yaml = "map" /\ "dependencies" \in meta.keys
        /\ Len(meta.dependencies) = 1
        /\ EntryName(meta.dependencies[1]) = b

Mutual(a, b) ==
    /\ a # b
    /\ Len(raw_list) = 1
    /\ EntryName(raw_list[1]) = a
    /\ DeclaresOnly(a, b)
    /\ DeclaresOnly(b, a)

C10_WorklistGrows ==
    \A a, b \in Names :
        (Mutual(a, b) /\ pc = "loop" /\ Len(popped) > 0 /\ Len(popped) % 2 = 0) =>
            \E c \in 1..MaxIter : Len(role_list) = 1 + c * (Len(popped) \div 2)

C10_WorklistStaysOne ==
    \A a, b \in Names :
        Mutual(a, b) =>
            /\ pc \notin Returned
            /\ pc = "loop" => Len(role_list) = 1

C10_Witness ==
    /\ \E a, b \in Names : Mutual(a, b)
    /\ pc = "loop"
    /\ Len(popped) = 4
    /\ Len(role_list) = 1

====
